---- MODULE Spec2Model ----
(***************************************************************************)
(* Hospital rota application: the rota engine solve_rota (solver.py) and   *)
(* the Tkinter front end that prepares its input and runs it on a          *)
(* background thread (hospital_rota_app.py).                               *)
(*                                                                         *)
(* A shift name "<type> <day> <unit>" is the token tuple <<type,day,unit>>;*)
(* a worker's "Day 5" token is <<"Day", 5>>.  Unit names are single tokens.*)
(* The MIP backend (CBC through PuLP) is outside the repository: it is a   *)
(* nondeterministic choice among the solutions of the model solve_rota     *)
(* builds.                                                                 *)
(***************************************************************************)
EXTENDS Integers, Sequences, FiniteSets, TLC

VARIABLES
    \* application globals (hospital_rota_app.py:30-53)
    shifts_list, workers_list, units_list, settings,
    days_list, starting_weekday, holiday_days, include_weekday_days,
    selected_manual_days,
    year, month, worker_row_number,
    \* one call of solve_rota
    pc, backend, solution, assignments, summary,
    \* widgets, the Tk event queue and the runs started by create_rota
    root, create_rota_button, add_worker_button, worker_rows, error_label,
    after_queue, runs

solver_vars == <<pc, backend, solution, assignments, summary>>
data_vars == <<shifts_list, workers_list, units_list, settings, days_list,
               starting_weekday, holiday_days, include_weekday_days,
               selected_manual_days, year, month, worker_row_number>>
gui_vars == <<root, create_rota_button, add_worker_button, worker_rows,
              error_label, after_queue, runs>>
vars == <<data_vars, solver_vars, gui_vars>>

None == "None"
\* None where the program otherwise holds a number: year, month and
\* starting_weekday before they are saved.
NoNumber == -1
\* None for total_points, the value of an objective no variable of which has
\* a value: a number no objective of the model takes.
NoPoints == -1000000

\* ------------------------------------------------------------------ bounds
\* Days of the (shortened) month of the generic input family.
MaxDay == 2
\* Shifts a worker may select manually in the generic input family.
MaxManual == 2
\* Worker rows the Add Worker button creates.
MaxRows == 2
\* Runs create_rota starts.
MaxRuns == 2

\* ------------------------------------------------------- program constants
points_filled == 100
points_preferred == 1
points_preferred_unit == 3
points_spacing == -2
spacing_days_threshold == 4
points_24hr == -3
default_max_weekends == 100
default_max_24hr == 100

day_names ==
    <<"Monday", "Tuesday", "Wednesday", "Thursday", "Friday", "Saturday", "Sunday">>

\* ------------------------------------------------------------ small helpers
RECURSIVE ConcatAll(_)
ConcatAll(ss) == IF ss = <<>> THEN <<>> ELSE Head(ss) \o ConcatAll(Tail(ss))

RECURSIVE SumOver(_, _)
SumOver(S, f) ==
    IF S = {} THEN 0
    ELSE LET e == CHOOSE q \in S : TRUE IN f[e] + SumOver(S \ {e}, f)

\* --------------------------------------------------------------- make_shifts
shift_name(shift_type, day, unit) == <<shift_type, day, unit>>

parse_shift_name(name) == [type |-> name[1], day |-> name[2], unit |-> name[3]]

shift_tags(day, startwd, holidays) ==
    LET weekday == (startwd + (day - 1)) % 7 IN
    {day_names[weekday + 1]}
        \cup (IF weekday \in {5, 6} THEN {"Weekend"} ELSE {})
        \cup (IF day \in holidays THEN {"Public holiday"} ELSE {})

\* The Day and Night shifts make_shifts appends for one unit and day.
shifts_of_day(unit, day, startwd, holidays, include) ==
    LET weekday == (startwd + (day - 1)) % 7
        skip(t) == (~include) /\ weekday \in {0, 1, 2, 3, 4} /\ t = "Day"
                       /\ day \notin holidays
        mk(t) == [name |-> shift_name(t, day, unit), type |-> t,
                  tags |-> shift_tags(day, startwd, holidays), unit |-> unit,
                  assigned_worker |-> None]
    IN  (IF skip("Day") THEN <<>> ELSE <<mk("Day")>>) \o <<mk("Night")>>

make_shifts(units, days, startwd, holidays, include) ==
    ConcatAll([u \in 1..Len(units) |->
        ConcatAll([d \in 1..Len(days) |->
            shifts_of_day(units[u], days[d], startwd, holidays, include)])])

\* ------------------------------------------------- assign_all_manual_shifts
\* One manual shift name of one worker: the first shift of that name takes
\* the worker when it is still free.
assign_one_manual(shifts, name, shift_name_) ==
    LET hits == {i \in DOMAIN shifts : shifts[i].name = shift_name_} IN
    IF hits = {} THEN shifts
    ELSE LET i == CHOOSE k \in hits : \A j \in hits : k <= j IN
         IF shifts[i].assigned_worker = None
         THEN [shifts EXCEPT ![i].assigned_worker = name]
         ELSE shifts

RECURSIVE assign_manual_list(_, _, _)
assign_manual_list(shifts, name, manual) ==
    IF manual = <<>> THEN shifts
    ELSE assign_manual_list(assign_one_manual(shifts, name, Head(manual)),
                            name, Tail(manual))

RECURSIVE assign_manual_workers(_, _, _)
assign_manual_workers(shifts, wl, manual_days) ==
    IF wl = <<>> THEN shifts
    ELSE LET row == Head(wl).worker_row_number
             manual == IF row \in DOMAIN manual_days THEN manual_days[row] ELSE <<>>
         IN assign_manual_workers(
                assign_manual_list(shifts, Head(wl).name, manual),
                Tail(wl), manual_days)

assign_all_manual_shifts(shifts, wl, manual_days) ==
    assign_manual_workers(shifts, wl, manual_days)

\* ================================================================ solve_rota
\* STEP 2: assignments[shift["name"]] = shift["assigned_worker"], in list order
\* (a later shift of the same name overwrites an earlier one).
initial_assignments ==
    LET names == {shifts_list[i].name : i \in DOMAIN shifts_list}
        last(n) == CHOOSE i \in DOMAIN shifts_list :
                       /\ shifts_list[i].name = n
                       /\ \A j \in DOMAIN shifts_list :
                              shifts_list[j].name = n => j <= i
    IN  [n \in names |-> shifts_list[last(n)].assigned_worker]

\* Position of a name in the insertion order of the assignments dict.
position(n) ==
    CHOOSE i \in DOMAIN shifts_list :
        /\ shifts_list[i].name = n
        /\ \A j \in 1..(i - 1) : shifts_list[j].name # n

\* STEP 3
empty_shifts == {n \in DOMAIN initial_assignments : initial_assignments[n] = None}

empty_weekend_shifts ==
    LET empty == empty_shifts
    IN  {shifts_list[i].name : i \in {k \in DOMAIN shifts_list :
            shifts_list[k].name \in empty /\ "Weekend" \in shifts_list[k].tags}}

\* STEP 4
workers == {workers_list[i].name : i \in DOMAIN workers_list}

\* Dict comprehensions and loops keyed by name keep the last worker of a name;
\* next(... for worker in workers_list if worker["name"] == w) takes the first.
last_worker(w) ==
    workers_list[CHOOSE i \in DOMAIN workers_list :
        /\ workers_list[i].name = w
        /\ \A j \in DOMAIN workers_list : workers_list[j].name = w => j <= i]

first_worker(w) ==
    workers_list[CHOOSE i \in DOMAIN workers_list :
        /\ workers_list[i].name = w
        /\ \A j \in DOMAIN workers_list : workers_list[j].name = w => i <= j]

\* STEP 6: pairs of empty shifts.
day_of(n) == parse_shift_name(n).day
type_of(n) == parse_shift_name(n).type
unit_of(n) == parse_shift_name(n).unit

consecutive_day_pairs ==
    LET empty == empty_shifts
    IN  {p \in empty \X empty : day_of(p[2]) = day_of(p[1]) + 1}

bad_night_to_day_pairs ==
    {p \in consecutive_day_pairs : type_of(p[1]) = "Night" /\ type_of(p[2]) = "Day"}

bad_adjacent_nights_pairs ==
    {p \in consecutive_day_pairs : type_of(p[1]) = "Night" /\ type_of(p[2]) = "Night"}

bad_adjacent_days_pairs ==
    {p \in consecutive_day_pairs : type_of(p[1]) = "Day" /\ type_of(p[2]) = "Day"}

same_day_pairs ==
    LET empty == empty_shifts
        pos == [n \in empty |-> position(n)]
    IN  {p \in empty \X empty :
            day_of(p[1]) = day_of(p[2]) /\ pos[p[1]] < pos[p[2]]}

is_24hr_pair(p) ==
    /\ unit_of(p[1]) = unit_of(p[2])
    /\ {type_of(p[1]), type_of(p[2])} = {"Day", "Night"}

twenty_four_hour_shift_pairs ==
    LET pairs == same_day_pairs IN {p \in pairs : is_24hr_pair(p)}

bad_same_day_non24hr_pairs ==
    LET pairs == same_day_pairs IN {p \in pairs : ~is_24hr_pair(p)}

\* Empty shifts sorted by day (a stable sort: ties keep the list order); the
\* inner scan stops at the first gap that reaches the threshold.
sorted_before(a, b) ==
    \/ day_of(a) < day_of(b)
    \/ day_of(a) = day_of(b) /\ position(a) < position(b)

\* A spacing-pair set restricted to shifts on different days.
bad_spacing_pairs_different_days ==
    LET empty == empty_shifts
    IN  {p \in empty \X empty :
            /\ day_of(p[1]) < day_of(p[2])
            /\ day_of(p[2]) - day_of(p[1]) < settings.spacing_days_threshold}

bad_spacing_pairs ==
    LET empty == empty_shifts
        before == {p \in empty \X empty : sorted_before(p[1], p[2])}
    IN  {p \in before :
            \A m \in empty :
                (<<p[1], m>> \in before /\ (m = p[2] \/ <<m, p[2]>> \in before))
                    => ~(day_of(m) - day_of(p[1]) >= settings.spacing_days_threshold)}

\* STEP 7
max_24hr(w) == last_worker(w).max_24hr
max_weekends(w) == last_worker(w).max_weekends
worker_preferred_units(w) == last_worker(w).prefer_units

with_units(tokens) ==
    {<<tok[1], tok[2], units_list[u]>> : tok \in tokens, u \in DOMAIN units_list}

worker_prefers(w) == with_units(last_worker(w).prefers)
worker_cannot(w) == with_units(last_worker(w).cannot_work)

\* A check of the empty shifts alone.
nothing_without_shifts == empty_shifts = {}

\* STEP 8
nothing_to_assign == empty_shifts = {} \/ workers = {}

\* STEP 10: assign_vars[w][shift] is a binary variable unless the pairing is
\* pruned (the constant 0).  A solution x is the set of variables valued 1.
\* A variable for every pairing, none pruned.
assign_vars_unpruned == workers \X empty_shifts

assign_vars ==
    LET cannot == [w \in workers |-> worker_cannot(w)]
    IN  {v \in workers \X empty_shifts : v[2] \notin cannot[v[1]]}

\* STEP 12.  A constraint "sum of terms <= 1" is kept as the set of its
\* variables, constraints "var <= 0" as the set of zeroed variables, and the
\* per-worker bounds as functions of the worker.
pair_constraints(pairs) ==
    LET variables == assign_vars
    IN  {{<<w, p[1]>>, <<w, p[2]>>} \cap variables : w \in workers, p \in pairs}

constraint_1_dropped == {}

constraint_1 ==
    LET variables == assign_vars
        names == workers
    IN  {{<<w, s>> : w \in names} \cap variables : s \in empty_shifts}

\* A range wide enough for every shift of a three-day month.
constraint_2_widened == [w \in workers |-> <<0, 6>>]

\* [min, max] on the sum of the worker's assign_vars over empty_shifts.
constraint_2 == [w \in workers |-> first_worker(w).shifts_to_fill]

constraint_3_dropped == {}

constraint_3 == pair_constraints(bad_night_to_day_pairs)

constraint_4 ==
    IF settings.enforce_no_adj_nights
    THEN pair_constraints(bad_adjacent_nights_pairs) ELSE {}

constraint_5 ==
    IF settings.enforce_no_adj_days
    THEN pair_constraints(bad_adjacent_days_pairs) ELSE {}

constraint_6 == pair_constraints(bad_same_day_non24hr_pairs)

\* CONSTRAINT 7 makes twenty_four_vars[w][pair] = 1 exactly when both halves
\* are assigned to w; CONSTRAINT 8 caps their sum per worker.
constraint_8 == [w \in workers |-> max_24hr(w)]

\* Cap on the sum of the worker's assign_vars over empty_weekend_shifts.
constraint_9 == [w \in workers |-> max_weekends(w)]

constraint_11_dropped == {}

constraint_11 ==
    LET cannot == [w \in workers |-> worker_cannot(w)]
    IN  {v \in workers \X empty_shifts : v[2] \in cannot[v[1]]}

\* CONSTRAINT 12: shifts already assigned to a worker of workers_list.
pre_assigned(w) ==
    {i \in DOMAIN shifts_list : shifts_list[i].assigned_worker = w}

adjacency_never_blocked(pre, emp) == FALSE

adjacency_blocked(pre, emp) ==
    LET pre_type == type_of(pre)
        pre_day == day_of(pre)
        emp_type == type_of(emp)
        emp_day == day_of(emp)
    IN  \/ pre_type = "Night" /\ emp_type = "Day" /\ emp_day = pre_day + 1
        \/ emp_type = "Night" /\ pre_type = "Day" /\ pre_day = emp_day + 1
        \/ /\ settings.enforce_no_adj_nights
           /\ pre_type = "Night" /\ emp_type = "Night"
           /\ (emp_day = pre_day + 1 \/ emp_day = pre_day - 1)
        \/ /\ settings.enforce_no_adj_days
           /\ pre_type = "Day" /\ emp_type = "Day"
           /\ (emp_day = pre_day + 1 \/ emp_day = pre_day - 1)

twenty_four_never_blocked(w, pre, emp) == FALSE

twenty_four_blocked(w, pre, emp) ==
    /\ max_24hr(w) = 0
    /\ day_of(emp) = day_of(pre)
    /\ unit_of(emp) = unit_of(pre)
    /\ {type_of(emp), type_of(pre)} = {"Day", "Night"}

constraint_12 ==
    {v \in workers \X empty_shifts :
        \E i \in pre_assigned(v[1]) :
            \/ adjacency_blocked(shifts_list[i].name, v[2])
            \/ twenty_four_blocked(v[1], shifts_list[i].name, v[2])}

\* STEP 9-12: the problem handed to the backend, built once per call.
build_problem ==
    [workers |-> workers,
     assign_vars |-> assign_vars,
     at_most_one |-> constraint_1 \cup constraint_3 \cup constraint_4
                         \cup constraint_5 \cup constraint_6,
     zeroed |-> constraint_11 \cup constraint_12,
     shift_range |-> constraint_2,
     twenty_four_pairs |-> twenty_four_hour_shift_pairs,
     max_24hr |-> constraint_8,
     weekend_shifts |-> empty_weekend_shifts,
     max_weekends |-> constraint_9,
     spacing_pairs |-> bad_spacing_pairs,
     prefers |-> [w \in workers |-> worker_prefers(w)],
     preferred_units |-> [w \in workers |-> worker_preferred_units(w)],
     points |-> settings]

assigned_count(x, w) == Cardinality({v \in x : v[1] = w})

assigned_among(x, w, shifts) == Cardinality({v \in x : v[1] = w /\ v[2] \in shifts})

\* assign_vars[w][s] in solution x: a pruned entry is the constant 0.
value_of(x, w, s) == IF <<w, s>> \in x THEN 1 ELSE 0

\* A linking without its lower bound.
linked_values_without_lower_bound(x, w, p) ==
    {aux \in {0, 1} : aux <= value_of(x, w, p[1]) /\ aux <= value_of(x, w, p[2])}

\* CONSTRAINT 7 and 10: the values the auxiliary binary of (w, pair) can take.
linked_values(x, w, p) ==
    {aux \in {0, 1} :
        /\ aux >= value_of(x, w, p[1]) + value_of(x, w, p[2]) - 1
        /\ aux <= value_of(x, w, p[1])
        /\ aux <= value_of(x, w, p[2])}

both_assigned(x, w, p) == <<w, p[1]>> \in x /\ <<w, p[2]>> \in x

pairs_held(x, w, pairs) == Cardinality({p \in pairs : both_assigned(x, w, p)})

\* STEP 11
objective(prob, x) ==
    prob.points.points_filled * Cardinality(x)
    + prob.points.points_preferred
        * Cardinality({v \in x : v[2] \in prob.prefers[v[1]]})
    + prob.points.points_preferred_unit
        * Cardinality({v \in x : unit_of(v[2]) \in prob.preferred_units[v[1]]})
    + prob.points.points_spacing
        * SumOver(prob.workers,
                  [w \in prob.workers |-> pairs_held(x, w, prob.spacing_pairs)])
    + prob.points.points_24hr
        * SumOver(prob.workers,
                  [w \in prob.workers |-> pairs_held(x, w, prob.twenty_four_pairs)])

\* The constraints on the variables of one worker: CONSTRAINTS 2 to 12 each
\* mention a single worker.
worker_constraints_hold(prob, w, x) ==
    /\ assigned_count(x, w) <= prob.shift_range[w][2]
    /\ assigned_count(x, w) >= prob.shift_range[w][1]
    /\ \A S \in prob.at_most_one : Cardinality(S \cap x) <= 1
    /\ pairs_held(x, w, prob.twenty_four_pairs) <= prob.max_24hr[w]
    /\ assigned_among(x, w, prob.weekend_shifts) <= prob.max_weekends[w]

worker_solutions(prob, w) ==
    {x \in SUBSET {v \in prob.assign_vars \ prob.zeroed : v[1] = w} :
        worker_constraints_hold(prob, w, x)}

\* The solutions of the problem: one solution per worker, joined wherever
\* the constraints that span workers (CONSTRAINT 1) still hold.
RECURSIVE join_workers(_, _, _)
join_workers(prob, rest, acc) ==
    IF rest = {} THEN acc
    ELSE LET w == CHOOSE q \in rest : TRUE
             own == worker_solutions(prob, w)
             joined == {y \cup x : y \in acc, x \in own}
         IN  join_workers(prob, rest \ {w},
                 {z \in joined :
                     \A S \in prob.at_most_one : Cardinality(S \cap z) <= 1})

feasible_solutions(prob) == join_workers(prob, prob.workers, {{}})

optimal_solutions(prob, F) ==
    LET obj == [x \in F |-> objective(prob, x)]
        values == {obj[x] : x \in F}
        best == CHOOSE m \in values : \A n \in values : n <= m
    IN  {x \in F : obj[x] = best}

\* A STEP 15 that writes nothing.
extract_nothing(x) == initial_assignments

\* STEP 15: for w in workers: for shift in empty_shifts: a variable valued 1
\* writes assignments[shift] = w (the last worker of the list wins).
extract_solution(x) ==
    LET before == initial_assignments
    IN  [n \in DOMAIN before |->
            LET holders == {i \in DOMAIN workers_list :
                               <<workers_list[i].name, n>> \in x}
            IN  IF holders = {} THEN before[n]
                ELSE workers_list[CHOOSE i \in holders :
                                      \A j \in holders : j <= i].name]

\* STEP 16: sorted(shifts, key=day), a stable sort of the worker's shifts.
RECURSIVE sort_by_day(_)
sort_by_day(S) ==
    IF S = {} THEN <<>>
    ELSE LET first == CHOOSE a \in S : \A b \in S \ {a} : sorted_before(a, b)
         IN  <<first>> \o sort_by_day(S \ {first})

worker_shifts(asg, w) == {n \in DOMAIN asg : asg[n] = w}

consecutive_count(asg, test(_, _)) ==
    LET holders == {asg[n] : n \in DOMAIN asg} \ {None}
        cnt == [w \in holders |->
                   LET s == sort_by_day(worker_shifts(asg, w))
                   IN  Cardinality({i \in 1..(Len(s) - 1) : test(s[i], s[i + 1])})]
    IN  SumOver(holders, cnt)

is_24hr_step(current, next_shift) ==
    day_of(current) = day_of(next_shift) /\ unit_of(current) = unit_of(next_shift)

never_bad_spacing_step(current, next_shift) == FALSE

is_bad_spacing_step(current, next_shift) ==
    day_of(next_shift) - day_of(current) < settings.spacing_days_threshold

preferences_count(asg) ==
    Cardinality({n \in DOMAIN asg : asg[n] # None /\ n \in worker_prefers(asg[n])})

twenty_four_count(asg) == consecutive_count(asg, is_24hr_step)

bad_spacing_count(asg) == consecutive_count(asg, is_bad_spacing_step)

\* The summary of an early return (STEP 8, STEP 14) and of STEP 18.
empty_summary(status) ==
    [preferences_count |-> 0, twenty_four_count |-> 0, bad_spacing_count |-> 0,
     status |-> status]

full_summary(asg, status, total_points) ==
    [preferences_count |-> preferences_count(asg),
     twenty_four_count |-> twenty_four_count(asg),
     bad_spacing_count |-> bad_spacing_count(asg),
     status |-> status, total_points |-> total_points]

\* What a call hands back: (assignments, summary), with the values of the
\* variables and the way the backend ended.
result(asg, sum, x, how) ==
    [assignments |-> asg, summary |-> sum, solution |-> x, backend |-> how]

\* STEP 8: nothing to solve, no model is built.
nothing_results ==
    {result(initial_assignments, empty_summary("Nothing to assign"), {}, "none")}

\* A STEP 14 that would report a proved infeasibility like any other status.
status_infeasible_as_undefined(F) ==
    IF F = {}
    THEN {result(initial_assignments, empty_summary("Undefined"), {}, "proved")}
    ELSE {}

\* STEP 14-18 after the backend proved the model infeasible.
status_infeasible(F) ==
    IF F = {}
    THEN {result(initial_assignments, empty_summary("Infeasible"), {}, "proved")}
    ELSE {}

\* STEP 14-18 after the backend proved a solution optimal.
status_optimal(prob, F) ==
    {LET asg == extract_solution(x)
     IN  result(asg, full_summary(asg, "Optimal", objective(prob, x)), x, "proved") :
        x \in optimal_solutions(prob, F)}

\* STEP 14-18 after the time limit ended the search: the best solution found
\* so far is read back.
status_not_solved(prob, F) ==
    {LET asg == extract_solution(x)
     IN  result(asg, full_summary(asg, "Not Solved", objective(prob, x)), x, "timeout") :
        x \in F}

\* STEP 14-18 after the time limit ended the search before any solution was
\* found: no variable has a value, the objective is None.
status_not_solved_empty ==
    LET asg == extract_solution({})
    IN  result(asg, full_summary(asg, "Not Solved", NoPoints), {}, "timeout")

\* A STEP 14 that would go on to STEP 15-18 for any other status too.
status_other_extracts ==
    {LET asg == extract_solution({})
     IN  result(asg, full_summary(asg, status, NoPoints), {}, "other") :
        status \in {"Unbounded", "Undefined"}}

\* STEP 14, any other status of the backend.
status_other ==
    {result(initial_assignments, empty_summary(status), {}, "other") :
        status \in {"Unbounded", "Undefined"}}

\* STEP 9-18 with a backend that ends by itself or at the time limit.
model_results ==
    LET prob == build_problem
        F == feasible_solutions(prob)
    IN  status_infeasible(F) \cup status_optimal(prob, F) \cup status_not_solved(prob, F)

\* A return that would also write the mapping back into the shifts.
return_result_writing_shifts(r) ==
    /\ pc' = "returned"
    /\ backend' = r.backend
    /\ solution' = r.solution
    /\ assignments' = r.assignments
    /\ summary' = r.summary
    /\ shifts_list' = [i \in DOMAIN shifts_list |->
           [shifts_list[i] EXCEPT
               !.assigned_worker = r.assignments[shifts_list[i].name]]]
    /\ UNCHANGED <<workers_list, units_list, settings, days_list,
                   starting_weekday, holiday_days, include_weekday_days,
                   selected_manual_days, year, month, worker_row_number, gui_vars>>

return_result(r) ==
    /\ pc' = "returned"
    /\ backend' = r.backend
    /\ solution' = r.solution
    /\ assignments' = r.assignments
    /\ summary' = r.summary
    /\ UNCHANGED <<data_vars, gui_vars>>

SolveNothing ==
    /\ pc = "call"
    /\ nothing_to_assign
    /\ \E r \in nothing_results : return_result(r)

SolveModel ==
    /\ pc = "call"
    /\ ~nothing_to_assign
    /\ \/ \E r \in model_results : return_result(r)
       \/ return_result(status_not_solved_empty)

SolveOther ==
    /\ pc = "call"
    /\ ~nothing_to_assign
    /\ \E r \in status_other : return_result(r)

\* A solve_rota that would catch the failure and report it as a status.
SolveRaisesCaught ==
    /\ pc = "call"
    /\ ~nothing_to_assign
    /\ pc' = "returned"
    /\ backend' = "crash"
    /\ solution' = {}
    /\ assignments' = initial_assignments
    /\ summary' = empty_summary("Error")
    /\ UNCHANGED <<data_vars, gui_vars>>

\* STEP 13: prob.solve raises (the CBC process crashed or was killed); no
\* handler in solve_rota, the exception leaves the function.
SolveRaises ==
    /\ pc = "call"
    /\ ~nothing_to_assign
    /\ pc' = "raised"
    /\ backend' = "crash"
    /\ UNCHANGED <<solution, assignments, summary, data_vars, gui_vars>>

solve_rota ==
    \/ SolveNothing
    \/ SolveModel
    \/ SolveOther
    \/ SolveRaises

\* ------------------------------------------------------------ input families
StartWeekdays == {4, 5}

base_settings ==
    [points_filled |-> points_filled, points_preferred |-> points_preferred,
     points_preferred_unit |-> points_preferred_unit,
     points_spacing |-> points_spacing,
     spacing_days_threshold |-> spacing_days_threshold,
     points_24hr |-> points_24hr,
     enforce_no_adj_nights |-> TRUE, enforce_no_adj_days |-> TRUE]

new_worker(name, range, cannot, max_wk, max_24, row) ==
    [name |-> name, shifts_to_fill |-> range, cannot_work |-> cannot,
     prefers |-> {}, prefer_units |-> {}, max_weekends |-> max_wk,
     max_24hr |-> max_24, worker_row_number |-> row]

RECURSIVE seq_of(_, _)
seq_of(S, shifts) ==
    IF shifts = <<>> THEN <<>>
    ELSE (IF Head(shifts).name \in S THEN <<Head(shifts).name>> ELSE <<>>)
             \o seq_of(S, Tail(shifts))

\* The main window as the module builds it (hospital_rota_app.py:57-84,
\* 452-453, 1187-1200): no worker row, every button enabled.
window_at_start ==
    /\ root = TRUE
    /\ create_rota_button = "normal"
    /\ add_worker_button = "normal"
    /\ worker_rows = <<>>
    /\ error_label = "other"
    /\ after_queue = <<>>
    /\ runs = <<>>

\* create_rota up to the call of solve_rota: make_shifts, then
\* assign_all_manual_shifts.
prepared(units, days, startwd, include, wl, manual, stg) ==
    /\ units_list = units
    /\ days_list = days
    /\ starting_weekday = startwd
    /\ holiday_days = {}
    /\ include_weekday_days = include
    /\ workers_list = wl
    /\ selected_manual_days = manual
    /\ settings = stg
    /\ shifts_list = assign_all_manual_shifts(
           make_shifts(units, days, startwd, {}, include), wl, manual)
    /\ year = NoNumber /\ month = NoNumber /\ worker_row_number = 1
    /\ pc = "call"
    /\ backend = "none"
    /\ solution = {}
    /\ assignments = <<>>
    /\ summary = <<>>
    /\ window_at_start

\* Worker 1 of the input families: the default row of the form, or one field
\* of it changed.
default_worker(name, row) ==
    new_worker(name, <<1, 2>>, {}, default_max_weekends, default_max_24hr, row)

WorkerProfiles ==
    {default_worker("w1", 1),
     [default_worker("w1", 1) EXCEPT !.shifts_to_fill = <<0, 1>>],
     [default_worker("w1", 1) EXCEPT !.cannot_work = {<<"Night", 1>>}],
     [default_worker("w1", 1) EXCEPT !.max_weekends = 1],
     [default_worker("w1", 1) EXCEPT !.max_24hr = 0],
     [default_worker("w1", 1) EXCEPT !.max_24hr = 1]}

second_worker ==
    [default_worker("w2", 2) EXCEPT !.shifts_to_fill = <<0, 1>>]

manual_choices(base, most) ==
    {seq_of(S, base) :
        S \in {T \in SUBSET {base[i].name : i \in DOMAIN base} : Cardinality(T) <= most}}

\* One unit, a month of MaxDay days, up to MaxManual manual shifts of worker 1.
OneUnitInputs ==
    \E startwd \in StartWeekdays, include \in BOOLEAN, w1 \in WorkerProfiles,
       nights \in BOOLEAN, adj_days \in BOOLEAN :
        LET units == <<"A">>
            days == [d \in 1..MaxDay |-> d]
            base == make_shifts(units, days, startwd, {}, include)
        IN  \E manual \in manual_choices(base, MaxManual) :
                prepared(units, days, startwd, include, <<w1, second_worker>>,
                         (1 :> manual) @@ (2 :> <<>>),
                         [base_settings EXCEPT !.enforce_no_adj_nights = nights,
                                               !.enforce_no_adj_days = adj_days])

\* Two units, two days, at most one manual shift of worker 1.
TwoUnitInputs ==
    \E startwd \in StartWeekdays, include \in BOOLEAN, w1 \in WorkerProfiles :
        LET units == <<"A", "B">>
            days == <<1, 2>>
            base == make_shifts(units, days, startwd, {}, include)
        IN  \E manual \in manual_choices(base, 1) :
                prepared(units, days, startwd, include, <<w1, second_worker>>,
                         (1 :> manual) @@ (2 :> <<>>), base_settings)

\* One unit, one day, no worker or one worker, any manual selection.
OneDayInputs ==
    \E startwd \in StartWeekdays, include \in BOOLEAN,
       wl \in {<<>>, <<default_worker("w1", 1)>>} :
        LET units == <<"A">>
            days == <<1>>
            base == make_shifts(units, days, startwd, {}, include)
        IN  \E manual \in manual_choices(base, Len(base)) :
                prepared(units, days, startwd, include, wl,
                         (1 :> manual) @@ (2 :> <<>>), base_settings)

\* Scenario A of the specification: one unit, 3 days, Day and Night each day,
\* two workers with range [1,2], no preferences, no adjacent nights.
ScenarioA ==
    \E adj_days \in BOOLEAN :
        prepared(<<"A">>, <<1, 2, 3>>, 0, TRUE,
                 <<new_worker("w1", <<1, 2>>, {}, default_max_weekends,
                              default_max_24hr, 1),
                   new_worker("w2", <<1, 2>>, {}, default_max_weekends,
                              default_max_24hr, 2)>>,
                 (1 :> <<>>) @@ (2 :> <<>>),
                 [base_settings EXCEPT !.enforce_no_adj_days = adj_days])

\* Scenario B of the specification: one worker with min = 5 while only 3
\* empty shifts exist (a Friday without its Day shift, and a Saturday).
ScenarioB ==
    prepared(<<"A">>, <<1, 2>>, 4, FALSE,
             <<new_worker("w1", <<5, 6>>, {}, default_max_weekends,
                          default_max_24hr, 1)>>,
             (1 :> <<>>), base_settings)

\* Scenario E of the specification: shifts 3 days apart (days 1 and 4) with
\* spacing_days_threshold = 5; one worker, or a second one beside it, and
\* at most one manual shift of worker 1.
ScenarioE ==
    \E include \in BOOLEAN, range \in {<<0, 2>>, <<2, 2>>},
       others \in {<<>>, <<second_worker>>} :
        LET units == <<"A">>
            days == <<1, 4>>
            base == make_shifts(units, days, 0, {}, include)
            w1 == [default_worker("w1", 1) EXCEPT !.shifts_to_fill = range]
        IN  \E manual \in manual_choices(base, 1) :
                prepared(units, days, 0, include, <<w1>> \o others,
                         (1 :> manual) @@ (2 :> <<>>),
                         [base_settings EXCEPT !.spacing_days_threshold = 5])

\* One unit, days 1, 2 and 4, one worker taking at most one shift, and a
\* spacing threshold below, between and at the day gaps.
SpacingThresholds == {1, 3, 4}

SpacingInputs ==
    \E include \in BOOLEAN, threshold \in SpacingThresholds :
        prepared(<<"A">>, <<1, 2, 4>>, 0, include,
                 <<[default_worker("w1", 1) EXCEPT !.shifts_to_fill = <<0, 1>>]>>,
                 (1 :> <<>>),
                 [base_settings EXCEPT !.spacing_days_threshold = threshold])

Init ==
    \/ OneUnitInputs \/ TwoUnitInputs \/ OneDayInputs
    \/ ScenarioA \/ ScenarioB \/ ScenarioE \/ SpacingInputs

Next == solve_rota

Spec == Init /\ [][Next]_vars

\* ============================================================ the front end
\* Handlers run to completion on the Tk main loop, one per step; input that
\* a handler rejects (its early returns) leaves the data alone and is kept
\* out of the step's guard.  The text of error_label is kept as its kind:
\* "solving", "stopped", "infeasible", "nothing", "finished", or "other" for
\* any other.

Years == {2026}
\* What is typed into the month entry.
GuiMonths == {5, 8, 12, 13}
HolidayEntries == {{}, {1}}
\* What save_units keeps of the entry: its non-blank parts in the order
\* typed ("", "A", "A,A").
UnitEntries == {<<>>, <<"A">>, <<"A", "A">>}
WorkerNames == {"w1", "w2"}

\* calendar.monthrange(2026, m)[0] for m = 1..12: 1 May 2026 is a Friday and
\* 1 August 2026 a Saturday.  The month is cut to its first MaxDay days.
first_weekday(y, m) == <<3, 6, 6, 2, 4, 0, 2, 5, 1, 3, 6, 1>>[m]

month_days == [d \in 1..MaxDay |-> d]

\* The names save_month_confirm shows the month with: eleven of them.
month_name_list ==
    <<"January", "February", "March", "April", "May", "June", "July",
      "September", "October", "November", "December">>

\* save_month_confirm: None ("rejected") without a year or with a month
\* outside 1..12; month_name_list[month-1] raises IndexError past the end of
\* the list ("raised"); else the tuple it returns.
save_month_confirm(y, entry) ==
    IF y = NoNumber \/ entry < 1 \/ entry > 12
    THEN [outcome |-> "rejected"]
    ELSE IF entry - 1 >= Len(month_name_list)
    THEN [outcome |-> "raised"]
    ELSE [outcome |-> "returned", month |-> entry, num_days |-> Len(month_days),
          starting_weekday |-> first_weekday(y, entry), days_list |-> month_days]

\* Preference files on disk.
SavedFiles ==
    {[year |-> 2026, month |-> 8, holiday_days |-> {}, units_list |-> <<"A">>,
      shifts_list |-> <<>>,
      workers_list |-> <<default_worker("w1", 1)>>,
      selected_manual_days |-> (1 :> <<>>)]}

\* Spreadsheets on disk: the units and, per worker row, name and shift_range.
\* The second sheet has "2,1" in its shift_range cell.
XlsxFiles ==
    {[units_list |-> <<"A">>,
      workers |-> <<[name |-> "w2", shifts_to_fill |-> <<0, 1>>]>>],
     [units_list |-> <<"A">>,
      workers |-> <<[name |-> "w1", shifts_to_fill |-> <<2, 1>>]>>]}

widgets_of_row(row_num) == [row_num |-> row_num, state |-> "normal"]

\* save_year, with a year save_year_confirm accepts.
save_year ==
    /\ root
    /\ \E y \in Years :
          /\ year' = y
          /\ IF month # NoNumber
             THEN /\ month' = NoNumber
                  /\ starting_weekday' = NoNumber
                  /\ days_list' = <<>>
                  /\ holiday_days' = {}
             ELSE UNCHANGED <<month, starting_weekday, days_list, holiday_days>>
    /\ error_label' = "other"
    /\ UNCHANGED <<shifts_list, workers_list, units_list, settings,
                   include_weekday_days, selected_manual_days, worker_row_number,
                   solver_vars, root, create_rota_button, add_worker_button,
                   worker_rows, after_queue, runs>>

\* save_month: the result of save_month_confirm is stored when there is one.
save_month ==
    /\ root
    /\ workers_list = <<>>
    /\ \E entry \in GuiMonths :
          LET stored == save_month_confirm(year, entry)
          IN  /\ stored.outcome = "returned"
              /\ month' = stored.month
              /\ starting_weekday' = stored.starting_weekday
              /\ days_list' = stored.days_list
    /\ holiday_days' = {}
    /\ error_label' = "other"
    /\ UNCHANGED <<shifts_list, workers_list, units_list, settings,
                   include_weekday_days, selected_manual_days, year,
                   worker_row_number, solver_vars, root, create_rota_button,
                   add_worker_button, worker_rows, after_queue, runs>>

save_holidays ==
    /\ root
    /\ year # NoNumber /\ month # NoNumber
    /\ \E h \in HolidayEntries : holiday_days' = h
    /\ error_label' = "other"
    /\ UNCHANGED <<shifts_list, workers_list, units_list, settings, days_list,
                   starting_weekday, include_weekday_days, selected_manual_days,
                   year, month, worker_row_number, solver_vars, root,
                   create_rota_button, add_worker_button, worker_rows,
                   after_queue, runs>>

\* save_units: the global is rebound before the empty entry is rejected.
save_units ==
    /\ root
    /\ workers_list = <<>>
    /\ \E u \in UnitEntries : units_list' = u
    /\ error_label' = "other"
    /\ UNCHANGED <<shifts_list, workers_list, settings, days_list,
                   starting_weekday, holiday_days, include_weekday_days,
                   selected_manual_days, year, month, worker_row_number,
                   solver_vars, root, create_rota_button, add_worker_button,
                   worker_rows, after_queue, runs>>

\* The body of add_worker_row, also called by the loaders.
can_add_worker_row(y, m, units) == y # NoNumber /\ m # NoNumber /\ units # <<>>

add_worker_row ==
    /\ root
    /\ add_worker_button = "normal"
    /\ can_add_worker_row(year, month, units_list)
    /\ worker_row_number <= MaxRows
    /\ worker_rows' = Append(worker_rows, widgets_of_row(worker_row_number))
    /\ worker_row_number' = worker_row_number + 1
    /\ UNCHANGED <<shifts_list, workers_list, units_list, settings, days_list,
                   starting_weekday, holiday_days, include_weekday_days,
                   selected_manual_days, year, month, solver_vars, root,
                   create_rota_button, add_worker_button, error_label,
                   after_queue, runs>>

\* save_worker(row_num) behind the Save button of a row, with entries it
\* accepts: blank Max Wknds and Max 24hr, no day or unit selected.
save_worker ==
    /\ root
    /\ \E i \in DOMAIN worker_rows, name \in WorkerNames :
          LET row_num == worker_rows[i].row_num
              existing == {k \in DOMAIN workers_list :
                              workers_list[k].worker_row_number = row_num}
              saved == default_worker(name, row_num)
          IN  /\ worker_rows[i].state = "normal"
              /\ workers_list' =
                    IF existing = {} THEN Append(workers_list, saved)
                    ELSE [workers_list EXCEPT
                             ![CHOOSE k \in existing : \A j \in existing : k <= j] = saved]
    /\ error_label' = "other"
    /\ UNCHANGED <<shifts_list, units_list, settings, days_list,
                   starting_weekday, holiday_days, include_weekday_days,
                   selected_manual_days, year, month, worker_row_number,
                   solver_vars, root, create_rota_button, add_worker_button,
                   worker_rows, after_queue, runs>>

drop_row(rows, i) == [k \in 1..(Len(rows) - 1) |-> IF k < i THEN rows[k] ELSE rows[k + 1]]

\* delete_row(row_num) behind the Delete button of a row.
delete_row ==
    /\ root
    /\ \E i \in DOMAIN worker_rows :
          LET row_num == worker_rows[i].row_num
              found == {k \in DOMAIN workers_list :
                           workers_list[k].worker_row_number = row_num}
              worker_name ==
                  IF found = {} THEN None
                  ELSE workers_list[CHOOSE k \in found : \A j \in found : k <= j].name
              first_row == CHOOSE k \in DOMAIN worker_rows :
                               /\ worker_rows[k].row_num = row_num
                               /\ \A j \in 1..(k - 1) : worker_rows[j].row_num # row_num
          IN  /\ worker_rows[i].state = "normal"
              /\ shifts_list' =
                    [k \in DOMAIN shifts_list |->
                        IF worker_name # None /\ shifts_list[k].assigned_worker = worker_name
                        THEN [shifts_list[k] EXCEPT !.assigned_worker = None]
                        ELSE shifts_list[k]]
              /\ selected_manual_days' =
                    [r \in DOMAIN selected_manual_days \ {row_num} |->
                        selected_manual_days[r]]
              /\ worker_rows' = drop_row(worker_rows, first_row)
              /\ workers_list' =
                    SelectSeq(workers_list, LAMBDA w : w.worker_row_number # row_num)
    /\ error_label' = "other"
    /\ UNCHANGED <<units_list, settings, days_list, starting_weekday,
                   holiday_days, include_weekday_days, year, month,
                   worker_row_number, solver_vars, root, create_rota_button,
                   add_worker_button, after_queue, runs>>

\* The rows the loaders build: add_worker_row once per loaded worker (its
\* button is not involved), every widget enabled.
RECURSIVE loaded_rows(_, _)
loaded_rows(wl, allowed) ==
    IF wl = <<>> \/ ~allowed THEN <<>>
    ELSE <<widgets_of_row(Head(wl).worker_row_number)>> \o loaded_rows(Tail(wl), allowed)

max_row(wl) ==
    CHOOSE n \in {wl[i].worker_row_number : i \in DOMAIN wl} :
        \A i \in DOMAIN wl : wl[i].worker_row_number <= n

\* load_preferences behind the Load button, with a file that holds every key.
\* save_month runs inside it against the workers_list of before the load.
load_preferences ==
    /\ root
    /\ \E data \in SavedFiles :
          LET loaded == [i \in DOMAIN data.workers_list |->
                            [data.workers_list[i] EXCEPT !.cannot_work = {},
                                                         !.prefers = {},
                                                         !.prefer_units = {}]]
              rows == {loaded[i].worker_row_number : i \in DOMAIN loaded}
          IN  /\ year' = data.year
              /\ month' = data.month
              /\ IF workers_list = <<>>
                 THEN /\ starting_weekday' = first_weekday(data.year, data.month)
                      /\ days_list' = month_days
                 ELSE UNCHANGED <<starting_weekday, days_list>>
              /\ holiday_days' = data.holiday_days
              /\ units_list' = data.units_list
              /\ shifts_list' = data.shifts_list
              /\ workers_list' = loaded
              /\ worker_rows' =
                    loaded_rows(loaded, can_add_worker_row(data.year, data.month,
                                                           data.units_list))
              /\ worker_row_number' = IF loaded = <<>> THEN 1 ELSE max_row(loaded) + 1
              /\ selected_manual_days' =
                    [r \in DOMAIN data.selected_manual_days \cup rows |->
                        IF r \in DOMAIN data.selected_manual_days
                        THEN data.selected_manual_days[r] ELSE <<>>]
    /\ error_label' = "other"
    /\ UNCHANGED <<settings, include_weekday_days, solver_vars, root,
                   create_rota_button, add_worker_button, after_queue, runs>>

\* load_xlsx_preferences behind the Load .xlsx button, with a sheet it reads
\* to the end.  Its root.update() after the last row comes before nothing
\* but the final message.
load_xlsx_preferences ==
    /\ root
    /\ year # NoNumber /\ month # NoNumber
    /\ days_list # <<>>
    /\ \E data \in XlsxFiles :
          LET loaded == [i \in DOMAIN data.workers |->
                            [default_worker(data.workers[i].name, i)
                                EXCEPT !.shifts_to_fill = data.workers[i].shifts_to_fill]]
          IN  /\ units_list' = data.units_list
              /\ workers_list' = loaded
              /\ worker_rows' =
                    loaded_rows(loaded, can_add_worker_row(year, month, data.units_list))
              /\ worker_row_number' = Len(loaded) + 1
              /\ selected_manual_days' = [i \in DOMAIN loaded |-> <<>>]
    /\ error_label' = "other"
    /\ UNCHANGED <<shifts_list, settings, days_list, starting_weekday,
                   holiday_days, include_weekday_days, year, month, solver_vars,
                   root, create_rota_button, add_worker_button, after_queue, runs>>

\* ------------------------------------------------- create_rota and its run
button_state_always_normal(is_solving) == "normal"

\* state = DISABLED if is_solving else NORMAL
button_state(is_solving) == IF is_solving THEN "disabled" ELSE "normal"

set_solving_state(is_solving) ==
    /\ create_rota_button' = button_state(is_solving)
    /\ add_worker_button' = button_state(is_solving)
    /\ worker_rows' = [i \in DOMAIN worker_rows |->
                          [worker_rows[i] EXCEPT !.state = button_state(is_solving)]]

\* The closure variables of one create_rota call and its thread;
\* result_holder is <<>> for [None].
new_run ==
    [thread |-> "running", solver_done |-> FALSE, animate_job |-> "pending",
     result_holder |-> <<>>, handled |-> FALSE]

\* shifts_list after make_shifts: rebuilt, or left as it was when the year,
\* the month or the units are missing.
shifts_made ==
    IF year = NoNumber \/ month = NoNumber \/ units_list = <<>> THEN shifts_list
    ELSE make_shifts(units_list, days_list, starting_weekday, holiday_days,
                     include_weekday_days)

\* create_rota behind the Create Rota button: prepares the shifts, locks the
\* buttons, shows the first "Solving rota" and starts the solver thread.
create_rota ==
    /\ root
    /\ create_rota_button = "normal"
    /\ Len(runs) < MaxRuns
    /\ IF shifts_made = <<>>
       THEN /\ shifts_list' = shifts_made
            /\ error_label' = "other"
            /\ UNCHANGED <<create_rota_button, add_worker_button, worker_rows, runs>>
       ELSE /\ shifts_list' = assign_all_manual_shifts(shifts_made, workers_list,
                                                       selected_manual_days)
            /\ set_solving_state(TRUE)
            /\ error_label' = "solving"
            /\ runs' = Append(runs, new_run)
    /\ UNCHANGED <<workers_list, units_list, settings, days_list,
                   starting_weekday, holiday_days, include_weekday_days,
                   selected_manual_days, year, month, worker_row_number,
                   solver_vars, root, after_queue>>

end_thread(r, held_result) ==
    [runs EXCEPT ![r] = [@ EXCEPT !.thread = "ended", !.solver_done = TRUE,
                                  !.result_holder = held_result]]

\* run_solver on the solver thread: solve_rota on the lists as they are at
\* that moment, then on_solver_finished is queued; or solve_rota raises and
\* show_error is queued.
run_solver ==
    /\ root
    /\ \E r \in DOMAIN runs :
          /\ runs[r].thread = "running"
          /\ \/ /\ \E res \in (IF nothing_to_assign THEN nothing_results
                               ELSE model_results \cup status_other) :
                      runs' = end_thread(r, <<res.assignments, res.summary>>)
                /\ after_queue' = Append(after_queue, <<"on_solver_finished", r>>)
             \/ /\ ~nothing_to_assign
                /\ runs' = end_thread(r, <<status_not_solved_empty.assignments,
                                           status_not_solved_empty.summary>>)
                /\ after_queue' = Append(after_queue, <<"on_solver_finished", r>>)
             \/ /\ ~nothing_to_assign
                /\ runs' = end_thread(r, <<>>)
                /\ after_queue' = Append(after_queue, <<"show_error", r>>)
    /\ UNCHANGED <<data_vars, solver_vars, root, create_rota_button,
                   add_worker_button, worker_rows, error_label>>

\* A handler that would end without root.after_cancel(animate_job[0]).
finish_run_without_cancel(r) ==
    [runs EXCEPT ![r] = [@ EXCEPT !.result_holder = <<>>, !.handled = TRUE]]

\* root.after_cancel(animate_job[0]) and the end of the callback.
finish_run(r) ==
    [runs EXCEPT ![r] = [@ EXCEPT !.animate_job = IF @ = "pending" THEN "cancelled" ELSE @,
                                  !.result_holder = <<>>,
                                  !.handled = TRUE]]

\* The keys of summary the popup of on_solver_finished prints.
summary_fields_read ==
    {"preferences_count", "twenty_four_count", "bad_spacing_count",
     "non_preferred_unit_count"}

\* on_solver_finished, queued with root.after(0, ...).  With a status other
\* than Infeasible and Nothing to assign the popup is filled; a key the
\* summary lacks raises KeyError and the callback ends there, before the
\* label is set to "Rota finished!" (kind "finished").
on_solver_finished ==
    /\ root
    /\ after_queue # <<>>
    /\ Head(after_queue)[1] = "on_solver_finished"
    /\ LET r == Head(after_queue)[2]
           held_summary == runs[r].result_holder[2]
           status == held_summary.status
       IN  /\ runs' = finish_run(r)
           /\ error_label' =
                 IF status = "Infeasible" THEN "infeasible"
                 ELSE IF status = "Nothing to assign" THEN "nothing"
                 ELSE IF summary_fields_read \subseteq DOMAIN held_summary
                      THEN "finished"
                 ELSE error_label
    /\ set_solving_state(FALSE)
    /\ after_queue' = Tail(after_queue)
    /\ UNCHANGED <<data_vars, solver_vars, root>>

\* show_error, queued by the except branch of run_solver.
show_error ==
    /\ root
    /\ after_queue # <<>>
    /\ Head(after_queue)[1] = "show_error"
    /\ runs' = finish_run(Head(after_queue)[2])
    /\ set_solving_state(FALSE)
    /\ error_label' = "stopped"
    /\ after_queue' = Tail(after_queue)
    /\ UNCHANGED <<data_vars, solver_vars, root>>

\* animate, queued with root.after(500, animate).
animate ==
    /\ root
    /\ \E r \in DOMAIN runs :
          /\ runs[r].animate_job = "pending"
          /\ runs' = [runs EXCEPT ![r].animate_job =
                         IF runs[r].solver_done THEN "fired" ELSE "pending"]
    /\ error_label' = "solving"
    /\ UNCHANGED <<data_vars, solver_vars, root, create_rota_button,
                   add_worker_button, worker_rows, after_queue>>

\* on_closing: the CBC children are killed and the window destroyed; the
\* main loop ends and the daemon thread with it.
on_closing ==
    /\ root
    /\ root' = FALSE
    /\ UNCHANGED <<data_vars, solver_vars, create_rota_button, add_worker_button,
                   worker_rows, error_label, after_queue, runs>>

InitGui ==
    /\ shifts_list = <<>> /\ workers_list = <<>> /\ units_list = <<>>
    /\ settings = base_settings
    /\ days_list = <<>> /\ starting_weekday = NoNumber /\ holiday_days = {}
    /\ include_weekday_days = FALSE
    /\ selected_manual_days = <<>>
    /\ year = NoNumber /\ month = NoNumber /\ worker_row_number = 1
    /\ pc = "idle" /\ backend = "none" /\ solution = {}
    /\ assignments = <<>> /\ summary = <<>>
    /\ window_at_start

NextGui ==
    \/ save_year
    \/ save_month
    \/ save_holidays
    \/ save_units
    \/ add_worker_row
    \/ save_worker
    \/ delete_row
    \/ load_preferences
    \/ load_xlsx_preferences
    \/ create_rota
    \/ run_solver
    \/ on_solver_finished
    \/ show_error
    \/ animate
    \/ on_closing

SpecGui == InitGui /\ [][NextGui]_vars

\* The runs under the scheduling the program relies on: the Tk main loop
\* calls every callback queued with root.after(0, ...) once it is idle.
\* Clicks and animation ticks have no such guarantee, and nothing bounds the
\* time solve_rota takes.  The handlers kept are the ones that write what
\* create_rota and the callbacks of a run read.
NextRun ==
    \/ save_year
    \/ add_worker_row
    \/ delete_row
    \/ load_preferences
    \/ load_xlsx_preferences
    \/ create_rota
    \/ run_solver
    \/ on_solver_finished
    \/ show_error
    \/ animate
    \/ on_closing

SpecRun ==
    /\ InitGui
    /\ [][NextRun]_vars
    /\ WF_vars(on_solver_finished)
    /\ WF_vars(show_error)

\* =============================================== properties of solve_rota
returned(statuses) == pc = "returned" /\ summary.status \in statuses

\* The shifts a worker holds in the returned mapping, and before the call.
held(w) == {n \in DOMAIN assignments : assignments[n] = w}

held_before(w) ==
    {shifts_list[i].name : i \in {k \in DOMAIN shifts_list :
                                     shifts_list[k].assigned_worker = w}}

same_day(a, b) == a[2] = b[2]

day_and_night_of_one_unit(a, b) == a[3] = b[3] /\ {a[1], b[1]} = {"Day", "Night"}

count_24hr(S) ==
    Cardinality({p \in S \X S : /\ p[1][1] = "Day" /\ p[2][1] = "Night"
                                /\ same_day(p[1], p[2]) /\ p[1][3] = p[2][3]})

weekend_tagged(S) ==
    {i \in DOMAIN shifts_list :
        shifts_list[i].name \in S /\ "Weekend" \in shifts_list[i].tags}

\* s1 on day d and s2 on day d + 1 are a step the rules forbid to one worker.
forbidden_step(s1, s2) ==
    /\ s2[2] = s1[2] + 1
    /\ \/ s1[1] = "Night" /\ s2[1] = "Day"
       \/ s1[1] = "Night" /\ s2[1] = "Night" /\ settings.enforce_no_adj_nights
       \/ s1[1] = "Day" /\ s2[1] = "Day" /\ settings.enforce_no_adj_days

names_of_workers_list == {workers_list[i].name : i \in DOMAIN workers_list}

row_of(w) == workers_list[CHOOSE i \in DOMAIN workers_list : workers_list[i].name = w]

range_of(w) == row_of(w).shifts_to_fill

\* C1: whenever solve_rota returns Optimal, every worker holds, pre-assigned
\* and solver-assigned shifts together, a number of shifts within the
\* worker's shifts_to_fill range.
C1_TotalWithinRange ==
    returned({"Optimal"}) =>
        \A w \in names_of_workers_list :
            /\ range_of(w)[1] <= Cardinality(held(w))
            /\ Cardinality(held(w)) <= range_of(w)[2]

no_same_day_conflict(S) ==
    \A a, b \in S : (a # b /\ same_day(a, b)) => day_and_night_of_one_unit(a, b)

\* C2: in a mapping returned as Optimal or Not Solved, given pre-assignments
\* without a same-day conflict among themselves, no worker holds two shifts
\* of one day unless they are the Day and the Night shift of one unit.

C2_NoSameDayConflict ==
    returned({"Optimal", "Not Solved"}) =>
        ((\A w \in names_of_workers_list : no_same_day_conflict(held_before(w)))
            => \A w \in names_of_workers_list : no_same_day_conflict(held(w)))

\* C3: in a mapping returned as Optimal or Not Solved, no worker holds more
\* 24-hour shifts than max_24hr, pre-assigned halves included, provided the
\* pre-assignments alone stay within the caps.
C3_TwentyFourWithinCap ==
    returned({"Optimal", "Not Solved"}) =>
        ((\A w \in names_of_workers_list :
              count_24hr(held_before(w)) <= row_of(w).max_24hr)
            => \A w \in names_of_workers_list :
                   count_24hr(held(w)) <= row_of(w).max_24hr)

\* C4: in a mapping returned as Optimal or Not Solved, no worker holds more
\* Weekend shifts than max_weekends, pre-assigned ones included, provided
\* the pre-assignments alone stay within the caps.
C4_WeekendsWithinCap ==
    returned({"Optimal", "Not Solved"}) =>
        ((\A w \in names_of_workers_list :
              Cardinality(weekend_tagged(held_before(w))) <= row_of(w).max_weekends)
            => \A w \in names_of_workers_list :
                   Cardinality(weekend_tagged(held(w))) <= row_of(w).max_weekends)

empty_before == {shifts_list[i].name : i \in {k \in DOMAIN shifts_list :
                                         shifts_list[k].assigned_worker = None}}

\* C5: two empty shifts on days d and d + 1 that form a Night->Day step, a
\* Night->Night step with enforce_no_adj_nights, or a Day->Day step with
\* enforce_no_adj_days, are never both given to one worker.

C5_NoForbiddenStep ==
    pc = "returned" =>
        \A s1, s2 \in empty_before :
            forbidden_step(s1, s2) =>
                ~(assignments[s1] # None /\ assignments[s1] = assignments[s2])

C5_Witness ==
    /\ returned({"Optimal"})
    /\ \E s1, s2 \in empty_before :
          /\ forbidden_step(s1, s2)
          /\ assignments[s1] # None /\ assignments[s2] # None

\* C6: a shift p pre-assigned to a worker of workers_list keeps every empty
\* shift e of the day before or after away from that worker when p and e, in
\* day order, form a forbidden step.
C6_PreAssignedBlocksAdjacent ==
    pc = "returned" =>
        \A w \in names_of_workers_list :
            \A p \in held_before(w), e \in empty_before :
                (forbidden_step(p, e) \/ forbidden_step(e, p)) => assignments[e] # w

C6_Witness ==
    /\ returned({"Optimal"})
    /\ \E w \in names_of_workers_list :
          \E p \in held_before(w), e \in empty_before :
              /\ forbidden_step(p, e) \/ forbidden_step(e, p)
              /\ assignments[e] \notin {None, w}

is_scenario_A ==
    /\ units_list = <<"A">> /\ days_list = <<1, 2, 3>>
    /\ Len(shifts_list) = 6 /\ empty_before = {shifts_list[i].name : i \in 1..6}
    /\ Len(workers_list) = 2
    /\ \A i \in 1..2 : /\ workers_list[i].shifts_to_fill = <<1, 2>>
                       /\ workers_list[i].prefers = {}
                       /\ workers_list[i].prefer_units = {}
                       /\ workers_list[i].cannot_work = {}
    /\ settings.enforce_no_adj_nights

no_consecutive_nights ==
    \A s1, s2 \in DOMAIN assignments :
        (s1[1] = "Night" /\ s2[1] = "Night" /\ s2[2] = s1[2] + 1)
            => ~(assignments[s1] # None /\ assignments[s1] = assignments[s2])

assigned_shifts == {n \in DOMAIN assignments : assignments[n] # None}

\* C7 as written: in Scenario A the call returns Optimal with all 6 shifts
\* assigned and no worker on Night shifts of two consecutive days.
C7_ScenarioA_AllSix ==
    (is_scenario_A /\ pc = "returned" /\ backend = "proved") =>
        /\ summary.status = "Optimal"
        /\ Cardinality(assigned_shifts) = 6
        /\ no_consecutive_nights

\* C7 as the code behaves: in Scenario A, with a backend that completes its search the call
\* returns Optimal with 4 of the 6 shifts assigned, 2 to each worker, and no
\* worker on Night shifts of two consecutive days.
C7_ScenarioA_FourOfSix ==
    (is_scenario_A /\ pc = "returned" /\ backend = "proved") =>
        /\ summary.status = "Optimal"
        /\ Cardinality(assigned_shifts) = 4
        /\ \A w \in names_of_workers_list : Cardinality(held(w)) = 2
        /\ no_consecutive_nights

C7_Witness ==
    /\ is_scenario_A /\ pc = "returned" /\ backend = "proved"
    /\ summary.status = "Optimal"
    /\ \E s \in assigned_shifts : s[1] = "Night"


other_half(p, e) == same_day(p, e) /\ day_and_night_of_one_unit(p, e)

\* C11: when a worker has max_24hr = 0 and a pre-assigned shift on day d in
\* unit u, the empty shift of the other type on day d in unit u is never
\* assigned to that worker.
C11_OtherHalfBlocked ==
    pc = "returned" =>
        \A w \in names_of_workers_list :
            row_of(w).max_24hr = 0 =>
                \A p \in held_before(w), e \in empty_before :
                    other_half(p, e) => (assignments[e] # w /\ <<w, e>> \notin solution)

C11_Witness ==
    /\ returned({"Optimal"})
    /\ \E w \in names_of_workers_list :
          /\ row_of(w).max_24hr = 0
          /\ \E p \in held_before(w), e \in empty_before :
                other_half(p, e) /\ assignments[e] \notin {None, w}

\* The mapping shift name -> assigned_worker of the input.
input_mapping_kept ==
    /\ DOMAIN assignments = {shifts_list[i].name : i \in DOMAIN shifts_list}
    /\ \A i \in DOMAIN shifts_list :
           assignments[shifts_list[i].name] = shifts_list[i].assigned_worker

all_counts_zero ==
    /\ summary.preferences_count = 0
    /\ summary.twenty_four_count = 0
    /\ summary.bad_spacing_count = 0

\* C12: when no shift is empty or the worker list is empty, solve_rota
\* returns before a model is built or a solver invoked, with status
\* "Nothing to assign", the three counts zero and the input mapping.
C12_NothingToAssign ==
    (pc # "call" /\ (empty_before = {} \/ workers_list = <<>>)) =>
        /\ pc = "returned"
        /\ backend = "none"
        /\ summary.status = "Nothing to assign"
        /\ all_counts_zero
        /\ input_mapping_kept

C12_Witness ==
    /\ returned({"Nothing to assign"})
    /\ workers_list = <<>>
    /\ empty_before # {}

\* No assignment satisfies the hard constraints of the model solve_rota builds.
no_feasible_assignment == feasible_solutions(build_problem) = {}

two_shifts_three_apart(S) ==
    /\ Cardinality(S) = 2
    /\ \E a, b \in S : b[2] - a[2] = 3

\* C14: with spacing_days_threshold = 5, a worker holding exactly two shifts
\* on days 3 apart (no other worker holding more than one shift) is a legal
\* result, and its bad_spacing_count is exactly 1.
C14_SpacingIsSoft ==
    (returned({"Optimal", "Not Solved"}) /\ settings.spacing_days_threshold = 5) =>
        \A w \in names_of_workers_list :
            (/\ two_shifts_three_apart(held(w))
             /\ \A v \in names_of_workers_list \ {w} : Cardinality(held(v)) <= 1)
                => summary.bad_spacing_count = 1

C14_Witness ==
    /\ returned({"Optimal"})
    /\ settings.spacing_days_threshold = 5
    /\ \E w \in names_of_workers_list :
          /\ two_shifts_three_apart(held(w))
          /\ \A s \in held(w) : <<w, s>> \in solution
          /\ \A v \in names_of_workers_list \ {w} : Cardinality(held(v)) <= 1
    /\ summary.bad_spacing_count = 1

\* The "<type> <day>" token of shift s is in the cannot_work list of w.
cannot_work_token(w, s) == <<s[1], s[2]>> \in row_of(w).cannot_work

\* C15: an empty shift whose "<type> <day>" token is in a worker's
\* cannot_work list, in any unit of units_list, has no decision variable for
\* that worker and is never mapped to that worker.
C15_CannotWorkNeverAssigned ==
    pc = "returned" =>
        \A w \in names_of_workers_list :
            \A s \in empty_before :
                cannot_work_token(w, s) =>
                    /\ <<w, s>> \notin assign_vars
                    /\ <<w, s>> \notin solution
                    /\ assignments[s] # w

C15_Witness ==
    /\ returned({"Optimal"})
    /\ \E w \in names_of_workers_list :
          \E s \in empty_before :
              cannot_work_token(w, s) /\ assignments[s] \notin {None, w}

\* The workers whose assignment variable of shift s has value 1.
holders_of(s) == {w \in names_of_workers_list : <<w, s>> \in solution}

\* C16: in every solution read back by solve_rota, at most one worker's
\* assignment variable of an empty shift has value 1, and the shift is mapped
\* to that worker whatever the order of the workers.
C16_OneWorkerPerShift ==
    pc = "returned" =>
        \A s \in empty_before :
            /\ Cardinality(holders_of(s)) <= 1
            /\ holders_of(s) # {} => holders_of(s) = {assignments[s]}

C16_Witness ==
    /\ returned({"Optimal"})
    /\ \E s1, s2 \in empty_before :
          /\ holders_of(s1) # {} /\ holders_of(s2) # {}
          /\ holders_of(s1) # holders_of(s2)

\* C17: the returned mapping has exactly the shift names of the input as
\* keys; a pre-assigned shift keeps its worker, an empty shift whose variable
\* has value 1 for a worker maps to that worker, any other empty shift maps
\* to None.
C17_ReturnedMapping ==
    pc = "returned" =>
        /\ DOMAIN assignments = {shifts_list[i].name : i \in DOMAIN shifts_list}
        /\ \A i \in DOMAIN shifts_list :
               shifts_list[i].assigned_worker # None =>
                   assignments[shifts_list[i].name] = shifts_list[i].assigned_worker
        /\ \A s \in empty_before :
               IF holders_of(s) = {} THEN assignments[s] = None
               ELSE assignments[s] \in holders_of(s)

C17_Witness ==
    /\ returned({"Optimal"})
    /\ \E i \in DOMAIN shifts_list :
          /\ shifts_list[i].assigned_worker # None
          /\ assignments[shifts_list[i].name] = shifts_list[i].assigned_worker
    /\ \E s \in empty_before : holders_of(s) # {} /\ assignments[s] \in holders_of(s)
    /\ \E s \in empty_before : assignments[s] = None

\* C18: a completed solver call ends in exactly one of the terminal outcomes:
\* for status Optimal or Not Solved the solution is extracted and the summary
\* of STEP 18 carries that status; for Infeasible and any other status the
\* call returns without extracting, with three zero counts and the status
\* string of the solver.
C18_TerminalOutcomes ==
    (pc = "returned" /\ backend # "none") =>
        /\ backend = "proved" => summary.status \in {"Optimal", "Infeasible"}
        /\ backend = "timeout" => summary.status = "Not Solved"
        /\ backend = "other" => summary.status \in {"Unbounded", "Undefined"}
        /\ IF summary.status \in {"Optimal", "Not Solved"}
           THEN /\ DOMAIN summary = {"preferences_count", "twenty_four_count",
                                      "bad_spacing_count", "status", "total_points"}
                /\ \A s \in empty_before :
                       \A w \in holders_of(s) : assignments[s] = w
           ELSE /\ DOMAIN summary = {"preferences_count", "twenty_four_count",
                                      "bad_spacing_count", "status"}
                /\ all_counts_zero
                /\ input_mapping_kept

C18_Witness ==
    /\ returned({"Unbounded", "Undefined"})
    /\ backend = "other"
    /\ empty_before # {}
    /\ all_counts_zero
    /\ input_mapping_kept

\* C19: for every terminal outcome, a call of solve_rota leaves shifts_list
\* (every assigned_worker included), workers_list, units_list and settings as
\* they were before the call.
C19_InputsUnchanged ==
    [][pc = "call" => UNCHANGED <<shifts_list, workers_list, units_list, settings>>]_vars

C19_Witness ==
    /\ returned({"Optimal"})
    /\ \E i \in DOMAIN shifts_list :
          /\ shifts_list[i].assigned_worker = None
          /\ assignments[shifts_list[i].name] # None

\* The unordered pairs of shifts of S whose day gap is below the threshold.
pairs_too_close(S) ==
    {P \in SUBSET S :
        /\ Cardinality(P) = 2
        /\ \A a, b \in P : a[2] - b[2] < settings.spacing_days_threshold}

\* C20: bad_spacing_count equals the number of unordered pairs of shifts held
\* by one worker in the final mapping, pre-assigned and solver-assigned
\* alike, whose day gap is below spacing_days_threshold.
C20_SpacingCountsAllPairs ==
    returned({"Optimal", "Not Solved"}) =>
        summary.bad_spacing_count =
            SumOver(names_of_workers_list,
                    [w \in names_of_workers_list |->
                        Cardinality(pairs_too_close(held(w)))])

\* The unordered pairs that bad_spacing_pairs holds.
spacing_pair_sets == {{p[1], p[2]} : p \in bad_spacing_pairs}

each_spacing_pair_once ==
    \A p \in bad_spacing_pairs : p[1] # p[2] /\ <<p[2], p[1]>> \notin bad_spacing_pairs

\* C21 as written: the spacing-pair set is exactly the set of unordered pairs
\* of distinct empty shifts on different days whose day gap is below
\* spacing_days_threshold, each once, and holds no pair of one day.
C21_SpacingPairsDifferentDays ==
    /\ spacing_pair_sets =
           {P \in pairs_too_close(empty_before) : \A a, b \in P : a # b => a[2] # b[2]}
    /\ each_spacing_pair_once

\* C21 as the code behaves: the spacing-pair set is exactly the set of
\* unordered pairs of distinct empty shifts whose day gap is below
\* spacing_days_threshold, pairs of one day included, each once; the early
\* exit of the inner scan drops none of them.
C21_SpacingPairsBelowThreshold ==
    /\ spacing_pair_sets = pairs_too_close(empty_before)
    /\ each_spacing_pair_once

\* An input where the early exit fires and a pair of one day is kept.
C21_Witness ==
    /\ pc = "returned"
    /\ \E a, b \in empty_before :
          b[2] - a[2] >= settings.spacing_days_threshold /\ settings.spacing_days_threshold > 0
    /\ \E p \in bad_spacing_pairs : p[1][2] = p[2][2]
    /\ \E p \in bad_spacing_pairs : p[1][2] < p[2][2]

\* The model without pruning: a binary variable for every (worker, empty
\* shift) pair, every constraint written over those variables, forbidden
\* pairs zeroed by CONSTRAINT 11 alone (and CONSTRAINT 12 as before).
unpruned_pair_constraints(pairs) ==
    {{<<w, p[1]>>, <<w, p[2]>>} : w \in workers, p \in pairs}

unpruned_problem ==
    [build_problem EXCEPT
        !.assign_vars = workers \X empty_shifts,
        !.at_most_one =
            {{<<w, s>> : w \in workers} : s \in empty_shifts}
            \cup unpruned_pair_constraints(bad_night_to_day_pairs)
            \cup (IF settings.enforce_no_adj_nights
                  THEN unpruned_pair_constraints(bad_adjacent_nights_pairs) ELSE {})
            \cup (IF settings.enforce_no_adj_days
                  THEN unpruned_pair_constraints(bad_adjacent_days_pairs) ELSE {})
            \cup unpruned_pair_constraints(bad_same_day_non24hr_pairs)]

\* C22: the pruned model and the model with a variable for every pair have
\* the same feasible assignments with the same objective values.
C22_PruningHasNoEffect ==
    (pc = "call" /\ ~nothing_to_assign) =>
        LET pruned == build_problem
            full == unpruned_problem
            F == feasible_solutions(pruned)
        IN  /\ F = feasible_solutions(full)
            /\ \A x \in F : objective(pruned, x) = objective(full, x)

\* An input with a pruned pair whose shift another worker can take.
C22_Witness ==
    /\ pc = "call"
    /\ \E w \in names_of_workers_list :
          \E s \in empty_before :
              /\ cannot_work_token(w, s) /\ <<w, s>> \notin assign_vars
              /\ \E x \in feasible_solutions(build_problem) :
                     \E v \in x : v[2] = s /\ v[1] # w

\* C23: in every solution read back, the auxiliary variable of a worker and a
\* 24-hour pair or spacing pair is 1 exactly when the worker is assigned both
\* shifts of the pair, also when one entry is a pruned constant 0.
C23_AuxiliaryIsConjunction ==
    returned({"Optimal", "Not Solved"}) =>
        \A w \in names_of_workers_list :
            \A p \in twenty_four_hour_shift_pairs \cup bad_spacing_pairs :
                linked_values(solution, w, p) =
                    {IF <<w, p[1]>> \in solution /\ <<w, p[2]>> \in solution
                     THEN 1 ELSE 0}

C23_Witness ==
    /\ returned({"Optimal", "Not Solved"})
    /\ \E w \in names_of_workers_list :
          /\ \E p \in twenty_four_hour_shift_pairs :
                /\ {<<w, p[1]>>, <<w, p[2]>>} \cap assign_vars # {<<w, p[1]>>, <<w, p[2]>>}
                /\ {<<w, p[1]>>, <<w, p[2]>>} \cap solution # {}
          /\ \E p \in bad_spacing_pairs : linked_values(solution, w, p) = {1}

\* ================================================ properties of the front end
\* A run is in flight from create_rota's start of the thread until its
\* finish handler or error handler has executed.
in_flight(r) == ~runs[r].handled

running_threads == {r \in DOMAIN runs : runs[r].thread = "running"}

\* C9: while a run is in flight no step of the program changes shifts_list,
\* workers_list or units_list (the solver thread never writes them, so any
\* such step is a GUI action).
C9_NoWriteInFlight ==
    [][(\E r \in DOMAIN runs : in_flight(r))
           => UNCHANGED <<shifts_list, workers_list, units_list>>]_vars

\* C10: at most one solver thread runs at any time, and the Create Rota
\* button stays disabled from the start of a run until that run's finish
\* handler or error handler has executed.
C10_OneSolverThread ==
    /\ Cardinality(running_threads) <= 1
    /\ (\E r \in DOMAIN runs : in_flight(r)) => create_rota_button = "disabled"

C10_Witness ==
    /\ Len(runs) = 2
    /\ runs[1].handled
    /\ runs[2].thread = "running"
    /\ create_rota_button = "disabled"


\* C24: the shift names in shifts_list are pairwise distinct and the day of
\* every shift is a day of the selected month.
C24_ShiftNamesDistinctInMonth ==
    /\ \A i, j \in DOMAIN shifts_list :
          shifts_list[i].name = shifts_list[j].name => i = j
    /\ \A i \in DOMAIN shifts_list :
          month # NoNumber =>
              \E d \in DOMAIN month_days : shifts_list[i].name[2] = month_days[d]
\* C25: no two workers in workers_list have the same name.
C25_WorkerNamesDistinct ==
    \A i, j \in DOMAIN workers_list :
        workers_list[i].name = workers_list[j].name => i = j
\* C26: every worker in workers_list has a shifts_to_fill range [min, max]
\* with 0 <= min <= max.
C26_ShiftRangesOrdered ==
    \A i \in DOMAIN workers_list :
        /\ 0 <= workers_list[i].shifts_to_fill[1]
        /\ workers_list[i].shifts_to_fill[1] <= workers_list[i].shifts_to_fill[2]
\* C27: the finish handler of a run that ended with status Optimal or
\* Not Solved reaches its last statement, which sets the label to
\* "Rota finished!".
C27_FinishHandlerCompletes ==
    [][(/\ after_queue # <<>>
        /\ Head(after_queue)[1] = "on_solver_finished"
        /\ runs[Head(after_queue)[2]].result_holder[2].status
               \in {"Optimal", "Not Solved"}
        /\ after_queue' = Tail(after_queue))
          => error_label' = "finished"]_vars
\* C28: a step taken while the year, the month or the units are not set
\* starts no solver thread and disables no button.
C28_NoRunWithoutRebuild ==
    [][(year = NoNumber \/ month = NoNumber \/ units_list = <<>>)
          => /\ Len(runs') = Len(runs)
             /\ create_rota_button = "normal" => create_rota_button' = "normal"
             /\ add_worker_button = "normal" => add_worker_button' = "normal"]_vars
\* solve_rota of the r-th run has returned or raised and the handler of the
\* run has not run yet; its finish handler or error handler has run.
ended_unhandled(r) ==
    IF r \in DOMAIN runs THEN runs[r].thread = "ended" /\ in_flight(r) ELSE FALSE

handler_ran(r) == IF r \in DOMAIN runs THEN runs[r].handled ELSE FALSE

controls_enabled ==
    /\ create_rota_button = "normal"
    /\ add_worker_button = "normal"
    /\ \A i \in DOMAIN worker_rows : worker_rows[i].state = "normal"

\* C29: once solve_rota of a run has returned or raised, and while the window
\* exists, the finish handler or error handler of the run is eventually
\* executed; that step leaves the controls enabled; once the handler has run
\* the animation job of the run is not pending, and with no run in flight no
\* step other than a new create_rota writes "Solving rota" to the label.
C29_RunsEndReenabled ==
    /\ \A r \in 1..MaxRuns : ended_unhandled(r) ~> (~root \/ handler_ran(r))
    /\ [][\A r \in DOMAIN runs :
             (in_flight(r) /\ runs'[r].handled) => controls_enabled']_vars
    /\ [](\A r \in DOMAIN runs :
             runs[r].handled => runs[r].animate_job # "pending")
    /\ [][((\A r \in DOMAIN runs : runs[r].handled) /\ Len(runs') = Len(runs))
             => (error_label' = "solving" => error_label = "solving")]_vars

\* Two runs have ended: the handler of the first cancelled a pending tick,
\* the second raised after its last tick and show_error has run.
C29_Witness ==
    /\ root
    /\ Len(runs) = 2
    /\ runs[1].handled /\ runs[1].animate_job = "cancelled"
    /\ runs[2].handled /\ runs[2].animate_job = "fired"
    /\ error_label = "stopped"
    /\ controls_enabled
\* C30: with a year set, save_month_confirm returns the tuple (month,
\* num_days, starting_weekday, days_list) for every month from 1 to 12, and
\* rejects only the entries outside 1..12.
C30_EveryMonthReturned ==
    year # NoNumber =>
        \A entry \in 0..13 :
            LET stored == save_month_confirm(year, entry)
            IN  IF entry \in 1..12
                THEN /\ stored.outcome = "returned"
                     /\ stored.month = entry
                     /\ stored.days_list = [d \in 1..stored.num_days |-> d]
                ELSE stored.outcome = "rejected"

====
